---- MODULE Spec2Model ----
(***************************************************************************)
(* Model of the log anomaly detector (src/snowflake/snowpark_analyzer.py,  *)
(* src/snowflake/upload_logs.py): the Snowflake tables raw_logs,           *)
(* parsed_logs, anomaly_results, anomaly_runs and TEMP_ANOMALY_RESULTS,    *)
(* the analyzer's fields, and run_full_pipeline as the sequence of its     *)
(* storage statements.  Text is a sequence of one-character strings.       *)
(***************************************************************************)
EXTENDS Integers, Sequences, FiniteSets, TLC

(* ------------------------------------------------------------------ *)
(* Bounds of the model                                                 *)
(* ------------------------------------------------------------------ *)
\* invocations of run_full_pipeline in one behaviour
MaxRuns == 2
\* rows raw_logs may hold
MaxRaw == 4

(* ------------------------------------------------------------------ *)
(* Text                                                                *)
(* ------------------------------------------------------------------ *)
\* Python's None / SQL NULL: a value that is no text (every text is a sequence of
\* one-character strings)
None == <<"None">>

Digits == {"0", "1", "2", "3", "4", "5", "6", "7", "8", "9"}
UpperCase == {"A", "B", "C", "D", "E", "F", "G", "H", "I", "J", "K", "L", "M",
              "N", "O", "P", "Q", "R", "S", "T", "U", "V", "W", "X", "Y", "Z"}
LowerCase == {"a", "b", "c", "d", "e", "f", "g", "h", "i", "j", "k", "l", "m",
              "n", "o", "p", "q", "r", "s", "t", "u", "v", "w", "x", "y", "z"}
WhiteSpace == {" ", "\t"}

IsDigit(c) == c \in Digits
IsSpace(c) == c \in WhiteSpace
IsLetter(c) == c \in UpperCase \cup LowerCase
\* a regex word character: \w
IsWordChar(c) == IsLetter(c) \/ IsDigit(c) \/ c = "_"

\* str.lower() on one character
ToLowerMap == [A |-> "a", B |-> "b", C |-> "c", D |-> "d", E |-> "e", F |-> "f",
               G |-> "g", H |-> "h", I |-> "i", J |-> "j", K |-> "k", L |-> "l",
               M |-> "m", N |-> "n", O |-> "o", P |-> "p", Q |-> "q", R |-> "r",
               S |-> "s", T |-> "t", U |-> "u", V |-> "v", W |-> "w", X |-> "x",
               Y |-> "y", Z |-> "z"]
LowerChar(c) == IF c \in UpperCase THEN ToLowerMap[c] ELSE c
Lower(s) == [i \in 1..Len(s) |-> LowerChar(s[i])]

\* s[i..] (1-based, empty when i is past the end)
Suffix(s, i) == SubSeq(s, i, Len(s))

\* sub occurs in s starting at position i
OccursAt(s, sub, i) ==
    /\ i + Len(sub) - 1 <= Len(s)
    /\ \A j \in 1..Len(sub) : s[i + j - 1] = sub[j]

\* Python's `sub in s`
Contains(s, sub) == \E i \in 1..(Len(s) + 1) : OccursAt(s, sub, i)

\* first position >= i of s that is not whitespace (Len(s)+1 when there is none)
RECURSIVE SkipSpaces(_, _)
SkipSpaces(s, i) ==
    IF i <= Len(s) /\ IsSpace(s[i]) THEN SkipSpaces(s, i + 1) ELSE i

\* first position >= i of s that is whitespace (Len(s)+1 when there is none)
RECURSIVE SkipToken(_, _)
SkipToken(s, i) ==
    IF i <= Len(s) /\ ~IsSpace(s[i]) THEN SkipToken(s, i + 1) ELSE i

\* n digits at s[i..i+n-1]
DigitsAt(s, i, n) ==
    /\ i + n - 1 <= Len(s)
    /\ \A j \in 0..(n - 1) : IsDigit(s[i + j])

CharAt(s, i, c) == i <= Len(s) /\ s[i] = c

(* ------------------------------------------------------------------ *)
(* parse_log_line                                                      *)
(* ------------------------------------------------------------------ *)
\* re.match(r'^(\d{4}-\d{2}-\d{2}\s+\d{2}:\d{2}:\d{2})\s*', line):
\* [matched, group_end (last position of group 1), match_end (first position
\* after the whole match)]
TimestampMatch(line) ==
    LET t == SkipSpaces(line, 11)
        ok == /\ DigitsAt(line, 1, 4) /\ CharAt(line, 5, "-")
              /\ DigitsAt(line, 6, 2) /\ CharAt(line, 8, "-")
              /\ DigitsAt(line, 9, 2)
              /\ t > 11
              /\ DigitsAt(line, t, 2) /\ CharAt(line, t + 2, ":")
              /\ DigitsAt(line, t + 3, 2) /\ CharAt(line, t + 5, ":")
              /\ DigitsAt(line, t + 6, 2)
    IN  IF ok
        THEN [matched |-> TRUE, group_end |-> t + 7,
              match_end |-> SkipSpaces(line, t + 8)]
        ELSE [matched |-> FALSE, group_end |-> 0, match_end |-> 1]

\* faulty variant: the timestamp is left in the line
CleanedLine_Unstripped(line) == line

\* re.sub of the same anchored pattern by '': the line without the match
CleanedLine(line) == Suffix(line, TimestampMatch(line).match_end)

S_ERROR == <<"E", "R", "R", "O", "R">>
S_WARNING == <<"W", "A", "R", "N", "I", "N", "G">>
S_WARN == <<"W", "A", "R", "N">>
S_CRITICAL == <<"C", "R", "I", "T", "I", "C", "A", "L">>
S_FATAL == <<"F", "A", "T", "A", "L">>
S_DEBUG == <<"D", "E", "B", "U", "G">>
S_SUMMARY == <<"S", "U", "M", "M", "A", "R", "Y">>

\* faulty variant: CRITICAL/FATAL is tested before WARNING/WARN
LogLevel_CriticalFirst(cleaned_line) ==
    IF Contains(cleaned_line, S_ERROR) THEN "ERROR"
    ELSE IF Contains(cleaned_line, S_CRITICAL) \/ Contains(cleaned_line, S_FATAL)
         THEN "CRITICAL"
    ELSE IF Contains(cleaned_line, S_WARNING) \/ Contains(cleaned_line, S_WARN)
         THEN "WARNING"
    ELSE IF Contains(cleaned_line, S_DEBUG) THEN "DEBUG"
    ELSE IF Contains(cleaned_line, S_SUMMARY) THEN "SUMMARY"
    ELSE "INFO"

\* the if/elif chain over the cleaned line
LogLevel(cleaned_line) ==
    IF Contains(cleaned_line, S_ERROR) THEN "ERROR"
    ELSE IF Contains(cleaned_line, S_WARNING) \/ Contains(cleaned_line, S_WARN)
         THEN "WARNING"
    ELSE IF Contains(cleaned_line, S_CRITICAL) \/ Contains(cleaned_line, S_FATAL)
         THEN "CRITICAL"
    ELSE IF Contains(cleaned_line, S_DEBUG) THEN "DEBUG"
    ELSE IF Contains(cleaned_line, S_SUMMARY) THEN "SUMMARY"
    ELSE "INFO"

\* faulty variant: split(None, 1), the message is what follows the first token
Message_AfterFirstToken(cleaned_line) ==
    LET a == SkipSpaces(cleaned_line, 1)
        b == SkipSpaces(cleaned_line, SkipToken(cleaned_line, a))
    IN  IF b <= Len(cleaned_line) THEN Suffix(cleaned_line, b) ELSE cleaned_line

\* cleaned_line.split(None, 2): the third part when there is one, else the
\* whole cleaned line
Message(cleaned_line) ==
    LET a == SkipSpaces(cleaned_line, 1)
        b == SkipSpaces(cleaned_line, SkipToken(cleaned_line, a))
        c == SkipSpaces(cleaned_line, SkipToken(cleaned_line, b))
    IN  IF c <= Len(cleaned_line) THEN Suffix(cleaned_line, c) ELSE cleaned_line

\* faulty variant: a falsy line gets no message
parse_log_line_NullMessage(line) ==
    IF line = None \/ line = <<>>
    THEN [log_level |-> "INFO", message |-> None, timestamp_str |-> None]
    ELSE LET m == TimestampMatch(line)
             cleaned_line == CleanedLine(line)
         IN  [log_level |-> LogLevel(cleaned_line),
              message |-> Message(cleaned_line),
              timestamp_str |-> IF m.matched THEN SubSeq(line, 1, m.group_end)
                                ELSE None]

parse_log_line(line) ==
    IF line = None \/ line = <<>>
    THEN [log_level |-> "INFO", message |-> <<>>, timestamp_str |-> None]
    ELSE LET m == TimestampMatch(line)
             cleaned_line == CleanedLine(line)
         IN  [log_level |-> LogLevel(cleaned_line),
              message |-> Message(cleaned_line),
              timestamp_str |-> IF m.matched THEN SubSeq(line, 1, m.group_end)
                                ELSE None]

(* ------------------------------------------------------------------ *)
(* Sample data: log files and run arguments                            *)
(* ------------------------------------------------------------------ *)
LineErr == <<"2", "0", "2", "5", "-", "1", "0", "-", "3", "0", " ", "1", "0", ":", "0", "0", ":", "1", "5", " ", "E", "R", "R", "O", "R", " ", "d", "b", " ", "l", "i", "n", "k", " ", "f", "a", "i", "l", "e", "d">>
LineInfo == <<"I", "N", "F", "O", " ", "d", "b", " ", "l", "i", "n", "k", " ", "o", "p", "e", "n", "e", "d">>
LinePadded == <<" ", "W", "A", "R", "N", " ", "d", "i", "s", "k", " ">>
LineBlank == <<" ", " ">>

FileApp == <<"a">>
FileDb == <<"d">>
\* a file name holding a quote
FileQuoted == <<"o", "'", "b">>

\* the lines of the log files on disk
FileLines(f) ==
    IF f = FileApp THEN <<LineErr, LineBlank, LineInfo, LineErr>>
    ELSE <<LinePadded>>

Files == {FileApp, FileDb}

\* the calls of run_full_pipeline: file_name, contamination (in percent) and
\* max_features
RunArgs ==
    { [file_name |-> None, contamination |-> 10, max_features |-> 2],
      [file_name |-> FileApp, contamination |-> 10, max_features |-> 100],
      [file_name |-> FileDb, contamination |-> 25, max_features |-> 100],
      [file_name |-> FileQuoted, contamination |-> 25, max_features |-> 100] }

(* ------------------------------------------------------------------ *)
(* upload_log_file                                                     *)
(* ------------------------------------------------------------------ *)
\* last position <= i of s that is not whitespace (0 when there is none)
RECURSIVE LastNonSpace(_, _)
LastNonSpace(s, i) ==
    IF i >= 1 /\ IsSpace(s[i]) THEN LastNonSpace(s, i - 1) ELSE i

\* str.strip()
Strip(s) == SubSeq(s, SkipSpaces(s, 1), LastNonSpace(s, Len(s)))

\* [line.strip() for line in f if line.strip()]
StrippedLines(lines) ==
    LET stripped == [i \in 1..Len(lines) |-> Strip(lines[i])]
    IN  SelectSeq(stripped, LAMBDA l : l # <<>>)

\* INSERT INTO raw_logs (file_name, raw_line) SELECT ...: LOG_ID is generated
InsertRaw(raw, f, lines) ==
    raw \o [i \in 1..Len(lines) |->
              [LOG_ID |-> Len(raw) + i, FILE_NAME |-> f, RAW_LINE |-> lines[i]]]

(* ------------------------------------------------------------------ *)
(* SQL text built by run_full_pipeline                                 *)
(* ------------------------------------------------------------------ *)
\* `if file_name:`
Truthy(x) == x # None /\ x # <<>>

\* the value of the SQL string literal '<body>': a doubled quote is one
\* quote, a single quote ends the literal early and the statement fails
RECURSIVE SqlLiteral(_)
SqlLiteral(body) ==
    IF body = <<>> THEN [ok |-> TRUE, value |-> <<>>]
    ELSE IF body[1] # "'"
         THEN LET r == SqlLiteral(Tail(body))
              IN  [ok |-> r.ok, value |-> <<body[1]>> \o r.value]
    ELSE IF Len(body) >= 2 /\ body[2] = "'"
         THEN LET r == SqlLiteral(Tail(Tail(body)))
              IN  [ok |-> r.ok, value |-> <<"'">> \o r.value]
    ELSE [ok |-> FALSE, value |-> <<>>]

\* str.replace("'", "''")
RECURSIVE EscapeQuotes(_)
EscapeQuotes(s) ==
    IF s = <<>> THEN <<>>
    ELSE (IF s[1] = "'" THEN <<"'", "'">> ELSE <<s[1]>>) \o EscapeQuotes(Tail(s))

\* query = "SELECT * FROM raw_logs" [+ " WHERE file_name = '{file_name}'"]
Query(fn) ==
    IF Truthy(fn) THEN [filtered |-> TRUE, literal |-> fn]
    ELSE [filtered |-> FALSE, literal |-> <<>>]

\* the statement compiles
QueryOk(q) == ~q.filtered \/ SqlLiteral(q.literal).ok

\* the rows the query selects from raw
RawBatch(q, raw) ==
    IF q.filtered
    THEN SelectSeq(raw, LAMBDA r : r.FILE_NAME = SqlLiteral(q.literal).value)
    ELSE raw

(* ------------------------------------------------------------------ *)
(* parse_log_structure                                                 *)
(* ------------------------------------------------------------------ *)
\* the lines raw_logs can hold, and the UDF's result for each
RawLines == UNION {{StrippedLines(FileLines(f))[i] :
                      i \in 1..Len(StrippedLines(FileLines(f)))} : f \in Files}
ParsedLine == [l \in RawLines |-> parse_log_line(l)]

ParsedRow(r) ==
    LET parsed == ParsedLine[r.RAW_LINE]
    IN  [LOG_ID |-> r.LOG_ID, FILE_NAME |-> r.FILE_NAME,
         LOG_LEVEL |-> parsed.log_level, MESSAGE |-> parsed.message,
         TIMESTAMP_EXTRACTED |-> parsed.timestamp_str]

\* the lazy data frame parsed_df, evaluated against the current raw_logs
ParsedDf(q, raw) ==
    LET b == RawBatch(q, raw) IN [i \in 1..Len(b) |-> ParsedRow(b[i])]

(* ------------------------------------------------------------------ *)
(* extract_features_and_vectorize: structural features                 *)
(* ------------------------------------------------------------------ *)
S_fail == <<"f", "a", "i", "l">>
S_exception == <<"e", "x", "c", "e", "p", "t", "i", "o", "n">>
S_unauthorized == <<"u", "n", "a", "u", "t", "h", "o", "r", "i", "z", "e", "d">>
S_connection == <<"c", "o", "n", "n", "e", "c", "t", "i", "o", "n">>
S_network == <<"n", "e", "t", "w", "o", "r", "k">>
S_latency == <<"l", "a", "t", "e", "n", "c", "y">>
S_timeout == <<"t", "i", "m", "e", "o", "u", "t">>

\* number of structural columns (the list structured_features)
NStructural == 12
\* is_rare_message: message_frequency <= 2
RareMax == 2

Bit(b) == IF b THEN 1 ELSE 0

\* .fillna(''): a NULL message counts as the empty text
FillNa(m) == IF m = None THEN <<>> ELSE m

\* str.contains(pat, case=False)
ContainsNoCase(m, pat) == Contains(Lower(m), pat)

\* str.count(r'[^\w\s]')
SpecialChars(m) == Cardinality({i \in 1..Len(m) : ~IsWordChar(m[i]) /\ ~IsSpace(m[i])})

\* faulty variant: the row itself is not counted
MessageFrequency_Others(rows, i) ==
    IF rows[i].MESSAGE = None THEN 0
    ELSE Cardinality({j \in 1..Len(rows) :
                        j # i /\ rows[j].MESSAGE = rows[i].MESSAGE})

\* df['MESSAGE'].map(df['MESSAGE'].value_counts()): rows of the batch with the
\* same message (value_counts drops NULL, which maps to NaN and is filled
\* with 0 in the feature matrix)
MessageFrequency(rows, i) ==
    IF rows[i].MESSAGE = None THEN 0
    ELSE Cardinality({j \in 1..Len(rows) : rows[j].MESSAGE = rows[i].MESSAGE})

\* the 12 structural columns of row i, in the order of structured_features
StructuredFeatures(rows, i) ==
    LET m == FillNa(rows[i].MESSAGE)
        lvl == rows[i].LOG_LEVEL
        freq == MessageFrequency(rows, i)
    IN  << Len(m),
           Bit(lvl = "ERROR"),
           Bit(lvl = "WARNING"),
           Bit(lvl = "CRITICAL"),
           Bit(ContainsNoCase(m, S_fail)),
           Bit(ContainsNoCase(m, S_exception)),
           Bit(ContainsNoCase(m, S_unauthorized)),
           Bit(\/ ContainsNoCase(m, S_connection) \/ ContainsNoCase(m, S_network)
               \/ ContainsNoCase(m, S_latency) \/ ContainsNoCase(m, S_timeout)),
           Bit(\E k \in 1..Len(m) : IsDigit(m[k])),
           SpecialChars(m),
           freq,
           Bit(rows[i].MESSAGE # None /\ freq <= RareMax) >>

(* ------------------------------------------------------------------ *)
(* extract_features_and_vectorize: TfidfVectorizer(max_features,       *)
(* min_df=2, max_df=0.8, ngram_range=(1, 2), lowercase,                *)
(* token_pattern=r'\b[a-zA-Z]{2,}\b', stop_words='english')            *)
(* ------------------------------------------------------------------ *)
MinDf == 2
\* max_df = 0.8, in percent
MaxDfPercent == 80

\* some of the words of the 'english' stop list
StopWords == {<<"t", "h", "e">>,
              <<"a", "n", "d">>,
              <<"a", "f", "t", "e", "r">>,
              <<"o", "f">>,
              <<"t", "o">>,
              <<"i", "s">>,
              <<"i", "n">>,
              <<"f", "o", "r">>,
              <<"o", "n">>,
              <<"w", "i", "t", "h">>}

\* first position >= i of s that is not a word character
RECURSIVE SkipWord(_, _)
SkipWord(s, i) ==
    IF i <= Len(s) /\ IsWordChar(s[i]) THEN SkipWord(s, i + 1) ELSE i

\* findall(r'\b[a-zA-Z]{2,}\b') from position i: the maximal runs of word
\* characters that are letters only and at least two long
RECURSIVE TokensFrom(_, _)
TokensFrom(s, i) ==
    IF i > Len(s) THEN <<>>
    ELSE IF ~IsWordChar(s[i]) THEN TokensFrom(s, i + 1)
    ELSE LET e == SkipWord(s, i)
             run == SubSeq(s, i, e - 1)
         IN  (IF Len(run) >= 2 /\ \A k \in 1..Len(run) : IsLetter(run[k])
              THEN <<run>> ELSE <<>>) \o TokensFrom(s, e)

\* lower-cased tokens without the stop words
Tokens(m) == SelectSeq(TokensFrom(Lower(m), 1), LAMBDA t : t \notin StopWords)

\* unigrams and bigrams of one message
Terms(m) ==
    LET t == Tokens(m)
    IN  {t[i] : i \in 1..Len(t)}
        \cup {t[i] \o <<" ">> \o t[i + 1] : i \in 1..(Len(t) - 1)}

\* the messages the uploaded lines parse to, and the terms of each
Messages == {parse_log_line(l).message : l \in RawLines} \cup {<<>>}
TermsOf == [m \in Messages |-> Terms(m)]

\* number of messages a term occurs in
DocFreq(term, messages) ==
    Cardinality({i \in 1..Len(messages) : term \in TermsOf[messages[i]]})

AllTerms(messages) == UNION {TermsOf[messages[i]] : i \in 1..Len(messages)}

\* the terms left after pruning by min_df and max_df
PrunedTerms(messages) ==
    {t \in AllTerms(messages) :
        /\ DocFreq(t, messages) >= MinDf
        /\ DocFreq(t, messages) * 100 <= MaxDfPercent * Len(messages)}

\* faulty variant: max_features is not enforced
Min_Larger(a, b) == IF a <= b THEN b ELSE a

Min(a, b) == IF a <= b THEN a ELSE b

\* vectorizer.fit_transform(messages): a ValueError when no term is found,
\* when max_df allows fewer documents than min_df, or when pruning leaves no
\* term; otherwise a matrix of min(terms left, max_features) columns
FitTransform(messages, max_feats) ==
    IF \/ AllTerms(messages) = {}
       \/ MaxDfPercent * Len(messages) < MinDf * 100
       \/ PrunedTerms(messages) = {}
    THEN [raised |-> TRUE, width |-> 0]
    ELSE [raised |-> FALSE,
          width |-> Min(Cardinality(PrunedTerms(messages)), max_feats)]

(* ------------------------------------------------------------------ *)
(* extract_features_and_vectorize: IsolationForest(contamination,      *)
(* random_state=42).fit_predict                                        *)
(* ------------------------------------------------------------------ *)
\* rows with the same feature vector get the same score from the fitted
\* forest; the feature vector of a row is decided by its structural columns
\* and its message
SameVector(rows, i, j) ==
    /\ rows[i].features = rows[j].features
    /\ rows[i].MESSAGE = rows[j].MESSAGE

\* the most rows whose score can lie strictly below the contamination
\* percentile of the batch's scores (linear interpolation at
\* position q*(n-1)/100 of the sorted scores)
MaxFlagged(n, q) ==
    IF n = 0 THEN 0
    ELSE IF (q * (n - 1)) % 100 = 0 THEN (q * (n - 1)) \div 100
    ELSE (q * (n - 1)) \div 100 + 1

\* the sets of rows fit_predict can label -1
FlaggedSets(rows, q) ==
    {A \in SUBSET (1..Len(rows)) :
        /\ Cardinality(A) <= MaxFlagged(Len(rows), q)
        /\ \A i \in A : \A j \in 1..Len(rows) : SameVector(rows, i, j) => j \in A}

(* ------------------------------------------------------------------ *)
(* State                                                               *)
(* ------------------------------------------------------------------ *)
VARIABLES
    raw_logs,         \* table raw_logs: rows [LOG_ID, FILE_NAME, RAW_LINE]
    parsed_logs,      \* table parsed_logs
    anomaly_results,  \* table anomaly_results
    anomaly_runs,     \* table anomaly_runs
    temp_table,       \* table TEMP_ANOMALY_RESULTS: [exists, rows]
    vectorizer,       \* self.vectorizer: "None", "unfitted" or "fitted"
    model,            \* self.model: "None" or "fitted"
    scaler,           \* self.scaler: "unfitted" or "fitted"
    pc,               \* where the current run_full_pipeline call stands
    file_name,        \* its arguments
    contamination,
    max_features,
    df,               \* the pandas frame of extract_features_and_vectorize
    feature_width,    \* feature_matrix.shape[1]
    tfidf,            \* "none", "ok" or "raised": how fit_transform ended
    results_df,       \* what extract_features_and_vectorize returned
    error,            \* the exception that ended the call, or "none"
    runs,             \* history: calls of run_full_pipeline so far
    stages,           \* history: the stages the current call went through
    ops,              \* history: the storage statements the current call issued
    res_base,         \* history: rows of anomaly_results when the call began
    runs_base,        \* history: rows of anomaly_runs when the call began
    read_len,         \* history: rows of raw_logs when to_pandas read them
    parsed_len,       \* history: rows of raw_logs at the last overwrite of parsed_logs
    parsed_arg,       \* history: file_name of the call that made that overwrite
    persisted,        \* history: file_name of each call whose INSERT of results ran
    raw_changed,      \* history: raw_logs changed after the first call began
    disk,             \* the model directory: what each .pkl file holds
    loaded,           \* history: the fields load_model assigned in its last call
    refit,            \* history: the fields fitted or replaced since that call
    raised,           \* history: the exception raised inside the last operation
    raw_line,         \* the argument of a call of parse_log_line
    parsed_record,    \* what that call returned (<<>> before it returns)
    batch,            \* the MESSAGE column of a frame given to the feature code
    structured,       \* the structural columns computed for it (<<>> before)
    log_entry,        \* explain_anomaly's first argument: a row of anomaly_results
    all_logs_df,      \* its second argument: the rows of anomaly_results
    reasons,          \* the list it returns
    uncapped,         \* its local score when it returns
    confidence,       \* the number it returns (-1 before it returns)
    session_pc,       \* per session: where its save_results_to_snowflake stands
    session_results,  \* per session: the frame its run scored
    session_error,    \* per session: the exception that ended its call, or "none"
    session_inserted  \* history, per session: the rows its INSERT appended

tables == <<raw_logs, parsed_logs, anomaly_results, anomaly_runs, temp_table>>
analyzer == <<vectorizer, model, scaler>>
args == <<file_name, contamination, max_features>>
frames == <<df, feature_width, tfidf, results_df>>
history == <<runs, res_base, runs_base, read_len, parsed_len, parsed_arg,
             persisted, raw_changed>>
persistence == <<disk, loaded, refit, raised>>
\* what run_full_pipeline and upload_log_file never touch
report == <<log_entry, all_logs_df, reasons, uncapped, confidence>>
sessions == <<session_pc, session_results, session_error, session_inserted>>
units == <<raw_line, parsed_record, batch, structured, report, sessions>>
aside == <<persistence, units>>
\* what save_model and load_model never touch
pipeline == <<tables, args, frames, pc, stages, ops, history>>
vars == <<tables, analyzer, args, frames, pc, error, stages, ops, history, aside>>

NoTemp == [exists |-> FALSE, rows |-> <<>>]

\* the three files of model_path
Fields == {"vectorizer", "model", "scaler"}
\* an empty model directory
NoFiles == [f \in Fields |-> "absent"]

\* no model was saved or loaded
PersistenceIdle ==
    /\ disk = NoFiles
    /\ loaded = {}
    /\ refit = {}
    /\ raised = "none"

\* no function is being exercised on its own
ReportIdle ==
    /\ log_entry = <<>>
    /\ all_logs_df = <<>>
    /\ reasons = <<>>
    /\ uncapped = 0
    /\ confidence = -1

\* no second session is connected
SessionsIdle ==
    /\ session_pc = <<>>
    /\ session_results = <<>>
    /\ session_error = <<>>
    /\ session_inserted = <<>>

UnitsIdle ==
    /\ raw_line = None
    /\ parsed_record = <<>>
    /\ batch = <<>>
    /\ structured = <<>>
    /\ ReportIdle
    /\ SessionsIdle

\* a new analyzer, no call in progress, over empty tables but for raw_logs,
\* which holds the rows raw
StartOver(raw) ==
    /\ raw_logs = raw
    /\ parsed_logs = <<>>
    /\ anomaly_results = <<>>
    /\ anomaly_runs = <<>>
    /\ temp_table = NoTemp
    /\ vectorizer = "None"
    /\ model = "None"
    /\ scaler = "unfitted"
    /\ pc = "idle"
    /\ file_name = None
    /\ contamination = 10
    /\ max_features = 100
    /\ df = <<>>
    /\ feature_width = 0
    /\ tfidf = "none"
    /\ results_df = <<>>
    /\ error = "none"
    /\ runs = 0
    /\ stages = <<>>
    /\ ops = <<>>
    /\ res_base = 0
    /\ runs_base = 0
    /\ read_len = 0
    /\ parsed_len = 0
    /\ parsed_arg = None
    /\ persisted = <<>>
    /\ raw_changed = FALSE

\* a new analyzer over empty tables, no call in progress
PipelineInit == StartOver(<<>>)

Init == PipelineInit /\ PersistenceIdle /\ UnitsIdle

(* ------------------------------------------------------------------ *)
(* Helpers of the pipeline steps                                       *)
(* ------------------------------------------------------------------ *)
\* faulty variant: the failure is swallowed and the call goes on
AfterStorage_Swallow(ok, next) == next

\* a storage statement that fails raises out of run_full_pipeline, which
\* has no handler: the call ends there
AfterStorage(ok, next) == IF ok THEN next ELSE "failed"

\* faulty variant: no handler around fit_transform
VectorizerErrorHandled_Reraise == FALSE

\* `except Exception` around fit_transform: the ValueError is handled
VectorizerErrorHandled == TRUE

\* faulty variant: the empty check is missing
DfEmpty_Never(rows) == FALSE

\* df.empty (line 140)
DfEmpty(rows) == Len(rows) = 0

\* results_df.empty (lines 253 and 326)
ResultsEmpty(rows) == Len(rows) = 0

\* faulty variant: the inliers are flagged
IsAnomaly_Flipped(score) == score = 1

\* is_anomaly = (anomaly_scores == -1)
IsAnomaly(score) == score = -1

\* faulty variant: rows whose LOG_ID the table already holds are skipped
InsertResultRows_Dedup(table, rows) ==
    table \o SelectSeq(rows, LAMBDA r :
                  \A k \in 1..Len(table) : table[k].LOG_ID # r.LOG_ID)

\* INSERT INTO anomaly_results ... SELECT ... FROM TEMP_ANOMALY_RESULTS: the
\* rows of the temporary table are appended
InsertResultRows(table, rows) == table \o rows

\* faulty variant: the run record replaces the history
InsertRunRow_Replace(table, row) == <<row>>

\* INSERT INTO anomaly_runs ... VALUES (...): one row is appended
InsertRunRow(table, row) == Append(table, row)

\* faulty variant: the run record is written before the results are saved
StepAfter_RecordBeforeSave(step) ==
    CASE step = "load_raw" -> "parse"
      [] step = "parse" -> "extract"
      [] step = "extract" -> "score"
      [] step = "score" -> "record_run"
      [] step = "record_run" -> "save_temp"
      [] step = "save_temp" -> "insert_results"
      [] step = "insert_results" -> "drop_temp"
      [] step = "drop_temp" -> "done"

\* the order of the steps of run_full_pipeline (and of the statements of
\* save_results_to_snowflake inside step 4)
StepAfter(step) ==
    CASE step = "load_raw" -> "parse"
      [] step = "parse" -> "extract"
      [] step = "extract" -> "score"
      [] step = "score" -> "save_temp"
      [] step = "save_temp" -> "insert_results"
      [] step = "insert_results" -> "drop_temp"
      [] step = "drop_temp" -> "record_run"
      [] step = "record_run" -> "done"

\* faulty variant: write mode "append"
Overwrite_Append(table, rows) == table \o rows

\* write.mode("overwrite").save_as_table: the rows replace the table
Overwrite(table, rows) == rows

\* faulty variant: rows repeating an earlier message are dropped first
WithFeatures_DropDuplicates(rows) ==
    LET kept == SelectSeq(rows, LAMBDA r :
                    \A j \in 1..Len(rows) :
                        rows[j].MESSAGE = r.MESSAGE => rows[j].LOG_ID >= r.LOG_ID)
    IN  [i \in 1..Len(kept) |->
            [LOG_ID |-> kept[i].LOG_ID, FILE_NAME |-> kept[i].FILE_NAME,
             LOG_LEVEL |-> kept[i].LOG_LEVEL, MESSAGE |-> kept[i].MESSAGE,
             TIMESTAMP_EXTRACTED |-> kept[i].TIMESTAMP_EXTRACTED,
             features |-> StructuredFeatures(kept, i)]]

\* the frame after the structural columns are added
WithFeatures(rows) ==
    [i \in 1..Len(rows) |->
        [LOG_ID |-> rows[i].LOG_ID, FILE_NAME |-> rows[i].FILE_NAME,
         LOG_LEVEL |-> rows[i].LOG_LEVEL, MESSAGE |-> rows[i].MESSAGE,
         TIMESTAMP_EXTRACTED |-> rows[i].TIMESTAMP_EXTRACTED,
         features |-> StructuredFeatures(rows, i)]]

\* the frame after anomaly_score, anomaly_probability and is_anomaly are
\* added, A being the rows fit_predict labels -1; anomaly_probability is the
\* negated score_samples, kept as its side of the offset: 2 above, 1 not above
WithScores(rows, A) ==
    [i \in 1..Len(rows) |->
        LET score == IF i \in A THEN -1 ELSE 1
        IN  [LOG_ID |-> rows[i].LOG_ID, FILE_NAME |-> rows[i].FILE_NAME,
             LOG_LEVEL |-> rows[i].LOG_LEVEL, MESSAGE |-> rows[i].MESSAGE,
             TIMESTAMP_EXTRACTED |-> rows[i].TIMESTAMP_EXTRACTED,
             features |-> rows[i].features,
             anomaly_score |-> score,
             anomaly_probability |-> IF i \in A THEN 2 ELSE 1,
             is_anomaly |-> IsAnomaly(score)]]

\* results_df[columns_to_save] with upper-cased column names
SaveDf(rows) ==
    [i \in 1..Len(rows) |->
        [LOG_ID |-> rows[i].LOG_ID, FILE_NAME |-> rows[i].FILE_NAME,
         LOG_LEVEL |-> rows[i].LOG_LEVEL, MESSAGE |-> rows[i].MESSAGE,
         ANOMALY_SCORE |-> rows[i].anomaly_score,
         ANOMALY_PROBABILITY |-> rows[i].anomaly_probability,
         IS_ANOMALY |-> rows[i].is_anomaly]]

\* faulty variant: the rows labelled 1 are counted
AnomalyCount_Inliers(rows) ==
    Cardinality({i \in 1..Len(rows) : rows[i].anomaly_score = 1})

\* int(results_df['is_anomaly'].sum())
AnomalyCount(rows) == Cardinality({i \in 1..Len(rows) : rows[i].is_anomaly})

\* the row INSERTed into anomaly_runs: the escaped name goes through a SQL
\* string literal
RunRow(fn, rows, c) ==
    LET file_name_escaped ==
            EscapeQuotes(IF Truthy(fn) THEN fn ELSE <<"A", "L", "L">>)
    IN  [file_name |-> SqlLiteral(file_name_escaped).value,
         total_logs |-> Len(rows),
         anomalies_detected |-> AnomalyCount(rows),
         contamination_factor |-> c]

(* ------------------------------------------------------------------ *)
(* run_full_pipeline, one action per stage and storage statement       *)
(* ------------------------------------------------------------------ *)
\* the call and step 1: the query text is built (nothing is read yet, the
\* data frame is lazy)
LoadRaw(a) ==
    /\ pc = "idle"
    /\ runs < MaxRuns
    /\ pc' = StepAfter("load_raw")
    /\ file_name' = a.file_name
    /\ contamination' = a.contamination
    /\ max_features' = a.max_features
    /\ df' = <<>>
    /\ feature_width' = 0
    /\ tfidf' = "none"
    /\ results_df' = <<>>
    /\ error' = "none"
    /\ runs' = runs + 1
    /\ stages' = <<"LOADING_RAW">>
    /\ ops' = <<>>
    /\ res_base' = Len(anomaly_results)
    /\ runs_base' = Len(anomaly_runs)
    /\ read_len' = 0
    /\ UNCHANGED <<tables, analyzer, parsed_len, parsed_arg, persisted, raw_changed>>
    /\ UNCHANGED aside

\* step 2: parse_log_structure and the overwrite of parsed_logs, which
\* evaluates the query
ParseLogs ==
    /\ pc = "parse"
    /\ \E ok \in BOOLEAN :
        LET q == Query(file_name)
            good == ok /\ QueryOk(q)
        IN  /\ parsed_logs' = IF good THEN Overwrite(parsed_logs, ParsedDf(q, raw_logs))
                              ELSE parsed_logs
            /\ parsed_len' = IF good THEN Len(raw_logs) ELSE parsed_len
            /\ parsed_arg' = IF good THEN file_name ELSE parsed_arg
            /\ pc' = AfterStorage(good, StepAfter("parse"))
            \* both are a SnowparkSQLException; the text tells them apart
            /\ error' = IF good THEN error
                        ELSE IF ~QueryOk(q) THEN "SQL compilation error"
                        ELSE "SnowparkSQLException"
    /\ stages' = Append(stages, "PARSING")
    /\ ops' = Append(ops, "overwrite parsed_logs")
    /\ UNCHANGED <<raw_logs, anomaly_results, anomaly_runs, temp_table, analyzer,
                   args, frames, runs, res_base, runs_base, read_len, persisted,
                   raw_changed>>
    /\ UNCHANGED aside

\* step 3, first half: to_pandas evaluates the query again; the empty check,
\* the structural columns, the vectorizer, the feature matrix and the scaler
ExtractFeatures ==
    /\ pc = "extract"
    /\ stages' = Append(stages, "EXTRACTING_FEATURES")
    /\ ops' = Append(ops, "read raw_logs")
    /\ \E ok \in BOOLEAN :
        LET rows == ParsedDf(Query(file_name), raw_logs)
            feats == WithFeatures(rows)
            messages == [i \in 1..Len(rows) |-> FillNa(rows[i].MESSAGE)]
            v == FitTransform(messages, max_features)
        IN  IF ~ok
            THEN /\ pc' = AfterStorage(FALSE, StepAfter("extract"))
                 /\ error' = "SnowparkSQLException"
                 /\ UNCHANGED <<analyzer, frames, read_len>>
            ELSE IF DfEmpty(rows)
            THEN \* return pd.DataFrame(); run_full_pipeline checks it
                 /\ results_df' = <<>>
                 /\ pc' = IF ResultsEmpty(<<>>) THEN "returned_empty" ELSE StepAfter("score")
                 /\ read_len' = Len(raw_logs)
                 /\ UNCHANGED <<analyzer, df, feature_width, tfidf, error>>
            ELSE IF v.raised /\ ~VectorizerErrorHandled
            THEN /\ pc' = "failed"
                 /\ error' = "ValueError"
                 /\ vectorizer' = "unfitted"
                 /\ df' = feats
                 /\ tfidf' = "raised"
                 /\ read_len' = Len(raw_logs)
                 /\ UNCHANGED <<model, scaler, feature_width, results_df>>
            ELSE IF Len(rows) = 0
            THEN \* StandardScaler.fit_transform of a frame without rows
                 /\ pc' = "failed"
                 /\ error' = "ValueError"
                 /\ vectorizer' = "unfitted"
                 /\ df' = feats
                 /\ tfidf' = "raised"
                 /\ read_len' = Len(raw_logs)
                 /\ UNCHANGED <<model, scaler, feature_width, results_df>>
            ELSE /\ pc' = StepAfter("extract")
                 /\ vectorizer' = IF v.raised THEN "unfitted" ELSE "fitted"
                 /\ scaler' = "fitted"
                 /\ df' = feats
                 /\ tfidf' = IF v.raised THEN "raised" ELSE "ok"
                 \* tfidf_df is empty after the handler
                 /\ feature_width' = NStructural + (IF v.raised THEN 0 ELSE v.width)
                 /\ read_len' = Len(raw_logs)
                 /\ UNCHANGED <<model, results_df, error>>
    /\ UNCHANGED <<tables, args, runs, res_base, runs_base, parsed_len, parsed_arg,
                   persisted, raw_changed>>
    /\ UNCHANGED aside

\* step 3, second half: the isolation forest is fitted and labels the rows
Score ==
    /\ pc = "score"
    /\ \E A \in FlaggedSets(df, contamination) :
        /\ df' = WithScores(df, A)
        /\ results_df' = WithScores(df, A)
        /\ pc' = IF ResultsEmpty(WithScores(df, A)) THEN "returned_empty"
                 ELSE StepAfter("score")
    /\ model' = "fitted"
    /\ stages' = Append(stages, "SCORING")
    /\ UNCHANGED <<tables, vectorizer, scaler, args, feature_width, tfidf, error,
                   ops, history>>
    /\ UNCHANGED aside

\* step 4, save_results_to_snowflake: the frame is written to
\* TEMP_ANOMALY_RESULTS, replacing it
SaveTemp ==
    /\ pc = "save_temp"
    /\ stages' = Append(stages, "PERSISTING_RESULTS")
    /\ IF ResultsEmpty(results_df)
       THEN \* "No results to save": nothing is written
            /\ pc' = StepAfter("drop_temp")
            /\ UNCHANGED <<temp_table, error, ops>>
       ELSE \E ok \in BOOLEAN :
            /\ temp_table' = IF ok THEN [exists |-> TRUE,
                                         rows |-> Overwrite(temp_table.rows,
                                                            SaveDf(results_df))]
                             ELSE temp_table
            /\ pc' = AfterStorage(ok, StepAfter("save_temp"))
            /\ error' = IF ok THEN error ELSE "SnowparkSQLException"
            /\ ops' = Append(ops, "write TEMP_ANOMALY_RESULTS")
    /\ UNCHANGED <<raw_logs, parsed_logs, anomaly_results, anomaly_runs, analyzer,
                   args, frames, history>>
    /\ UNCHANGED aside

\* INSERT INTO anomaly_results ... SELECT ... FROM TEMP_ANOMALY_RESULTS
InsertResults ==
    /\ pc = "insert_results"
    /\ \E ok \in BOOLEAN :
        LET good == ok /\ temp_table.exists
        IN  /\ anomaly_results' = IF good
                                  THEN InsertResultRows(anomaly_results, temp_table.rows)
                                  ELSE anomaly_results
            /\ persisted' = IF good THEN Append(persisted, file_name) ELSE persisted
            /\ pc' = AfterStorage(good, StepAfter("insert_results"))
            /\ error' = IF good THEN error ELSE "SnowparkSQLException"
    /\ ops' = Append(ops, "insert anomaly_results")
    /\ UNCHANGED <<raw_logs, parsed_logs, anomaly_runs, temp_table, analyzer, args,
                   frames, stages, runs, res_base, runs_base, read_len, parsed_len,
                   parsed_arg, raw_changed>>
    /\ UNCHANGED aside

\* DROP TABLE IF EXISTS TEMP_ANOMALY_RESULTS
DropTemp ==
    /\ pc = "drop_temp"
    /\ \E ok \in BOOLEAN :
        /\ temp_table' = IF ok THEN NoTemp ELSE temp_table
        /\ pc' = AfterStorage(ok, StepAfter("drop_temp"))
        /\ error' = IF ok THEN error ELSE "SnowparkSQLException"
    /\ ops' = Append(ops, "drop TEMP_ANOMALY_RESULTS")
    /\ UNCHANGED <<raw_logs, parsed_logs, anomaly_results, anomaly_runs, analyzer,
                   args, frames, stages, history>>
    /\ UNCHANGED aside

\* step 5: the run record is INSERTed into anomaly_runs
RecordRun ==
    /\ pc = "record_run"
    /\ stages' = Append(stages, "RECORDING_RUN")
    /\ IF ResultsEmpty(results_df)
       THEN \* results_df['is_anomaly'] of a frame without columns
            /\ pc' = "failed"
            /\ error' = "KeyError"
            /\ UNCHANGED <<anomaly_runs, ops>>
       ELSE \E ok \in BOOLEAN :
            /\ anomaly_runs' =
                 IF ok
                 THEN InsertRunRow(anomaly_runs,
                                   RunRow(file_name, results_df, contamination))
                 ELSE anomaly_runs
            /\ pc' = AfterStorage(ok, StepAfter("record_run"))
            /\ error' = IF ok THEN error ELSE "SnowparkSQLException"
            /\ ops' = Append(ops, "insert anomaly_runs")
    /\ UNCHANGED <<raw_logs, parsed_logs, anomaly_results, temp_table, analyzer,
                   args, frames, history>>
    /\ UNCHANGED aside

\* the call returns its frame or the exception reaches the caller
Return ==
    /\ pc \in {"done", "returned_empty", "failed"}
    /\ pc' = "idle"
    /\ file_name' = None
    /\ contamination' = 10
    /\ max_features' = 100
    /\ df' = <<>>
    /\ feature_width' = 0
    /\ tfidf' = "none"
    /\ results_df' = <<>>
    /\ error' = "none"
    /\ stages' = <<>>
    /\ ops' = <<>>
    /\ read_len' = 0
    /\ res_base' = Len(anomaly_results)
    /\ runs_base' = Len(anomaly_runs)
    /\ UNCHANGED <<tables, analyzer, runs, parsed_len, parsed_arg, persisted,
                   raw_changed>>
    /\ UNCHANGED aside

(* ------------------------------------------------------------------ *)
(* upload_log_file: another session appends a file's lines to raw_logs *)
(* ------------------------------------------------------------------ *)
UploadLines == [f \in Files |-> StrippedLines(FileLines(f))]

Upload(f) ==
    LET lines == UploadLines[f]
    IN  /\ Len(raw_logs) + Len(lines) <= MaxRaw
        /\ raw_logs' = InsertRaw(raw_logs, f, lines)
        /\ raw_changed' = (raw_changed \/ runs > 0)
        /\ UNCHANGED <<parsed_logs, anomaly_results, anomaly_runs, temp_table,
                       analyzer, args, frames, pc, error, stages, ops, runs,
                       res_base, runs_base, read_len, parsed_len, parsed_arg,
                       persisted>>
        /\ UNCHANGED aside

Next ==
    \/ \E a \in RunArgs : LoadRaw(a)
    \/ ParseLogs
    \/ ExtractFeatures
    \/ Score
    \/ SaveTemp
    \/ InsertResults
    \/ DropTemp
    \/ RecordRun
    \/ Return
    \/ \E f \in Files : Upload(f)

Spec == Init /\ [][Next]_vars

(* ------------------------------------------------------------------ *)
(* The pipeline over a raw_logs that holds a file with a quoted name   *)
(* ------------------------------------------------------------------ *)
\* upload_log_file has stored the lines of the file o'b (it passes the name
\* as data, not as SQL text)
QuotedRows == InsertRaw(<<>>, FileQuoted, StrippedLines(FileLines(FileQuoted)))

FilterInit == StartOver(QuotedRows) /\ PersistenceIdle /\ UnitsIdle

FilterSpec == FilterInit /\ [][Next]_vars

(* ------------------------------------------------------------------ *)
(* save_model, load_model and the fitting done by a scoring call       *)
(* ------------------------------------------------------------------ *)
\* the order in which both functions go through the files
FieldOrder == <<"vectorizer", "model", "scaler">>
Pos(f) == CHOOSE i \in 1..Len(FieldOrder) : FieldOrder[i] = f

\* the object a field of the analyzer holds
FieldValue(f) ==
    CASE f = "vectorizer" -> vectorizer
      [] f = "model" -> model
      [] f = "scaler" -> scaler

\* `if self.vectorizer:`, `if self.model:`, `if self.scaler:`: None is falsy,
\* an estimator object is truthy
FieldTruthy(f) == FieldValue(f) # "None"

\* joblib.load of the file raises
Unreadable(f) == disk[f] \in {"absent", "corrupt"}
LoadError(f) == IF disk[f] = "absent" THEN "FileNotFoundError" ELSE "UnpicklingError"

\* the first file, in order, whose load raises (0 when all load)
FirstUnreadable ==
    IF \E i \in 1..Len(FieldOrder) : Unreadable(FieldOrder[i])
    THEN CHOOSE i \in 1..Len(FieldOrder) :
            /\ Unreadable(FieldOrder[i])
            /\ \A j \in 1..(i - 1) : ~Unreadable(FieldOrder[j])
    ELSE 0

\* the fields load_model assigns before its try block is left
Assigned == {f \in Fields : FirstUnreadable = 0 \/ Pos(f) < FirstUnreadable}

\* what a model directory can hold when the analyzer is created: nothing, a
\* damaged file, or an estimator fitted and saved by an earlier session
DiskContents == {"absent", "corrupt", "earlier"}

\* the fitting statements of extract_features_and_vectorize on a non-empty
\* batch: a new TfidfVectorizer is assigned and fitted (or raises and is
\* left unfitted), the scaler is refitted in place, a new IsolationForest
\* is assigned and fitted
FitPredict ==
    /\ \E v_raised \in BOOLEAN :
        /\ vectorizer' = IF v_raised THEN "unfitted" ELSE "fitted"
        /\ raised' = IF v_raised THEN "VectorizationDegraded" ELSE "none"
    /\ scaler' = "fitted"
    /\ model' = "fitted"
    /\ refit' = Fields
    /\ error' = "none"
    /\ UNCHANGED <<pipeline, units, disk, loaded>>

\* save_model: each truthy field is dumped in turn; a dump that fails
\* raises out of save_model and may leave a damaged file
SaveModel ==
    /\ \E fail \in Fields \cup {"none"} :
        /\ fail # "none" => FieldTruthy(fail)
        /\ \E left \in (IF fail = "none" THEN {"absent"} ELSE {disk[fail], "corrupt"}) :
              disk' = [f \in Fields |->
                         IF f = fail THEN left
                         ELSE IF FieldTruthy(f) /\ (fail = "none" \/ Pos(f) < Pos(fail))
                         THEN FieldValue(f)
                         ELSE disk[f]]
        /\ raised' = IF fail = "none" THEN "none" ELSE "OSError"
        /\ error' = IF fail = "none" THEN "none" ELSE "OSError"
    /\ UNCHANGED <<pipeline, units, analyzer, loaded, refit>>

\* load_model: the fields are assigned one by one inside try; the first load
\* that raises ends the block, and the handler prints and returns
LoadModel ==
    /\ vectorizer' = IF "vectorizer" \in Assigned THEN disk["vectorizer"] ELSE vectorizer
    /\ model' = IF "model" \in Assigned THEN disk["model"] ELSE model
    /\ scaler' = IF "scaler" \in Assigned THEN disk["scaler"] ELSE scaler
    /\ loaded' = Assigned
    /\ refit' = {}
    /\ raised' = IF FirstUnreadable = 0 THEN "none"
                 ELSE LoadError(FieldOrder[FirstUnreadable])
    /\ error' = "none"
    /\ UNCHANGED <<pipeline, units, disk>>

ModelInit ==
    /\ PipelineInit
    /\ UnitsIdle
    /\ disk \in [Fields -> DiskContents]
    /\ loaded = {}
    /\ refit = {}
    /\ raised = "none"

ModelNext ==
    \/ FitPredict
    \/ SaveModel
    \/ LoadModel

ModelSpec == ModelInit /\ [][ModelNext]_vars

(* ------------------------------------------------------------------ *)
(* parse_log_line on its own                                           *)
(* ------------------------------------------------------------------ *)
\* tokens a line is put together from
MaxTokens == 3

W_warn == <<"w", "a", "r", "n">>
W_db == <<"d", "b">>
Words == {S_ERROR, S_WARNING, S_WARN, S_CRITICAL, S_FATAL, S_DEBUG, S_SUMMARY,
          W_warn, W_db}

Stamp == <<"2", "0", "2", "5", "-", "1", "0", "-", "3", "0", " ", "1", "0", ":", "0", "0", ":", "1", "5">>
ExampleLine == <<"2", "0", "2", "5", "-", "1", "0", "-", "3", "0", " ", "1", "0", ":", "0", "0", ":", "1", "5", " ", "E", "R", "R", "O", "R", " ", "D", "a", "t", "a", "b", "a", "s", "e", " ", "c", "o", "n", "n", "e", "c", "t", "i", "o", "n", " ", "f", "a", "i", "l", "e", "d", ":", " ", "t", "i", "m", "e", "o", "u", "t", " ", "a", "f", "t", "e", "r", " ", "3", "0", "s">>
ExampleMessage == <<"c", "o", "n", "n", "e", "c", "t", "i", "o", "n", " ", "f", "a", "i", "l", "e", "d", ":", " ", "t", "i", "m", "e", "o", "u", "t", " ", "a", "f", "t", "e", "r", " ", "3", "0", "s">>

\* the words of ws separated by one space
RECURSIVE Join(_)
Join(ws) ==
    IF ws = <<>> THEN <<>>
    ELSE IF Len(ws) = 1 THEN ws[1]
    ELSE ws[1] \o <<" ">> \o Join(Tail(ws))

Bodies == {Join(ws) : ws \in UNION {[1..k -> Words] : k \in 0..MaxTokens}}

\* what may stand before the words: nothing, a timestamp, a timestamp after
\* leading whitespace
Prefixes == {<<>>, Stamp \o <<" ">>, <<" ">> \o Stamp \o <<" ">>}

\* lines with irregular spacing, the null line and the documented example
SpecialLines ==
    { None, <<" ">>, <<" ", " ">>, <<"\t">>, ExampleLine, Stamp,
      Stamp \o S_ERROR,
      Stamp \o <<" ", " ">> \o S_DEBUG \o <<" ">>,
      <<" ", "\t">> \o Stamp \o <<" ">> \o S_ERROR \o <<" ">> \o W_db \o <<" ">> \o W_db,
      S_ERROR \o <<" ", " ">> \o W_db \o <<" ", " ">> \o W_db \o <<" ">>,
      S_ERROR \o <<"\t">> \o W_db \o <<" ", " ">>,
      W_db \o <<" ">> \o W_db \o <<" ">> \o W_db \o <<" ", " ">> \o S_FATAL \o <<" ">> }

ParserLines == {p \o b : p \in Prefixes, b \in Bodies} \cup SpecialLines

\* the UDF is applied to one line
ParseLine ==
    /\ parsed_record = <<>>
    /\ parsed_record' = <<parse_log_line(raw_line)>>
    /\ UNCHANGED <<tables, analyzer, args, frames, pc, error, stages, ops, history,
                   persistence, raw_line, batch, structured, report, sessions>>

ParserInit ==
    /\ PipelineInit
    /\ PersistenceIdle
    /\ raw_line \in ParserLines
    /\ parsed_record = <<>>
    /\ batch = <<>>
    /\ structured = <<>>
    /\ ReportIdle
    /\ SessionsIdle

ParserNext == ParseLine

ParserSpec == ParserInit /\ [][ParserNext]_vars

(* ------------------------------------------------------------------ *)
(* The structural columns on their own                                 *)
(* ------------------------------------------------------------------ *)
\* rows of a frame given to the feature code
MaxBatch == 4

M_x == <<"x", "1">>
M_fail == <<"d", "b", " ", "f", "a", "i", "l">>
M_under == <<"a", "_", "b", "!">>
\* the messages of the frames; a NULL message is one of them
FeatureMessages == {M_x, M_fail, M_under, None}

FeatureRow(i, m) ==
    [LOG_ID |-> i, FILE_NAME |-> FileApp,
     LOG_LEVEL |-> IF m = M_fail THEN "ERROR" ELSE "INFO",
     MESSAGE |-> m, TIMESTAMP_EXTRACTED |-> None]

Frame(ms) == [i \in 1..Len(ms) |-> FeatureRow(i, ms[i])]

\* ten rows in which M_x occurs exactly twice
TenMessages == <<M_x, M_fail, M_under, M_x, M_fail, M_under, M_under, M_fail,
                 M_under, M_under>>

FeatureBatches ==
    {Frame(ms) : ms \in UNION {[1..n -> FeatureMessages] : n \in 1..MaxBatch}}
    \cup {Frame(TenMessages)}

\* the statements that add the structural columns to the frame
ComputeFeatures ==
    /\ structured = <<>>
    /\ structured' = WithFeatures(batch)
    /\ UNCHANGED <<tables, analyzer, args, frames, pc, error, stages, ops, history,
                   persistence, raw_line, parsed_record, batch, report, sessions>>

FeatureInit ==
    /\ PipelineInit
    /\ PersistenceIdle
    /\ raw_line = None
    /\ parsed_record = <<>>
    /\ batch \in FeatureBatches
    /\ structured = <<>>
    /\ ReportIdle
    /\ SessionsIdle

FeatureNext == ComputeFeatures

FeatureSpec == FeatureInit /\ [][FeatureNext]_vars

(* ------------------------------------------------------------------ *)
(* explain_anomaly (src/snowflake/explain_anomalies.py)                *)
(* ------------------------------------------------------------------ *)
S_denied == <<"d", "e", "n", "i", "e", "d">>
S_attack == <<"a", "t", "t", "a", "c", "k">>
S_locked == <<"l", "o", "c", "k", "e", "d">>
S_breach == <<"b", "r", "e", "a", "c", "h">>
S_malicious == <<"m", "a", "l", "i", "c", "i", "o", "u", "s">>
S_error == <<"e", "r", "r", "o", "r">>
S_invalid == <<"i", "n", "v", "a", "l", "i", "d">>
S_unable == <<"u", "n", "a", "b", "l", "e">>
S_cannot == <<"c", "a", "n", "n", "o", "t">>

\* the dict keywords in its order: keyword and the reason it stands for
keywords ==
    << [keyword |-> S_fail, description |-> "Contains failure indicators"],
       [keyword |-> S_exception, description |-> "Exception detected"],
       [keyword |-> S_unauthorized, description |-> "Unauthorized access attempt"],
       [keyword |-> S_timeout, description |-> "Timeout issue"],
       [keyword |-> S_connection, description |-> "Connection problem"],
       [keyword |-> S_denied, description |-> "Access denied"],
       [keyword |-> S_attack, description |-> "Potential security threat"],
       [keyword |-> S_locked, description |-> "Account locking event"],
       [keyword |-> S_breach, description |-> "Security breach indicator"],
       [keyword |-> S_malicious, description |-> "Malicious activity"] >>

error_indicators ==
    <<S_error, S_fail, S_exception, S_denied, S_invalid, S_unable, S_cannot>>

\* 1. log level severity
SeverityStep(acc, log_level) ==
    IF log_level \in {"ERROR", "CRITICAL"}
    THEN [reasons |-> Append(acc.reasons, "High severity level"),
          score |-> acc.score + 25]
    ELSE acc

\* 2. the loop over keywords.items(), from the k-th item on
RECURSIVE KeywordStep(_, _, _)
KeywordStep(acc, message_lower, k) ==
    IF k > Len(keywords) THEN acc
    ELSE KeywordStep(IF Contains(message_lower, keywords[k].keyword)
                     THEN [reasons |-> Append(acc.reasons, keywords[k].description),
                           score |-> acc.score + 15]
                     ELSE acc,
                     message_lower, k + 1)

\* faulty variant: the uncommon branch adds its points without a reason
RarityStep_Silent(acc, frequency, total_logs) ==
    IF frequency * 100 < total_logs
    THEN [reasons |-> Append(acc.reasons, "Extremely rare message"),
          score |-> acc.score + 30]
    ELSE IF frequency * 100 < 5 * total_logs
    THEN [reasons |-> acc.reasons, score |-> acc.score + 15]
    ELSE acc

\* 3. rarity_pct = (frequency / total_logs) * 100 against 1 and 5, compared
\* without the division
RarityStep(acc, frequency, total_logs) ==
    IF frequency * 100 < total_logs
    THEN [reasons |-> Append(acc.reasons, "Extremely rare message"),
          score |-> acc.score + 30]
    ELSE IF frequency * 100 < 5 * total_logs
    THEN [reasons |-> Append(acc.reasons, "Uncommon message"),
          score |-> acc.score + 15]
    ELSE acc

RECURSIVE SumSeq(_)
SumSeq(xs) == IF xs = <<>> THEN 0 ELSE xs[1] + SumSeq(Tail(xs))

\* 4. msg_len against avg_length +- 2 * std_length, where std is pandas'
\* sample standard deviation (NaN for a single row, which compares False).
\* With n rows, S the sum and Q the sum of squares of the lengths:
\* avg = S/n, std^2 = (n*Q - S*S) / (n*(n-1)); both sides are scaled by n
\* and squared to stay in the integers.
LengthStep(acc, msg_len, lengths) ==
    LET n == Len(lengths)
        S == SumSeq(lengths)
        Q == SumSeq([j \in 1..n |-> lengths[j] * lengths[j]])
        d == n * msg_len - S
        beyond == n >= 2 /\ d * d * (n - 1) > 4 * n * (n * Q - S * S)
    IN  IF beyond /\ d > 0
        THEN [reasons |-> Append(acc.reasons, "Unusually long message"),
              score |-> acc.score + 10]
        ELSE IF beyond /\ d < 0
        THEN [reasons |-> Append(acc.reasons, "Unusually short message"),
              score |-> acc.score + 10]
        ELSE acc

\* sum(not c.isalnum() and not c.isspace() for c in message)
special_chars(m) ==
    Cardinality({i \in 1..Len(m) :
                    ~(IsLetter(m[i]) \/ IsDigit(m[i])) /\ ~IsSpace(m[i])})

\* 5. special characters
SpecialStep(acc, m) ==
    IF special_chars(m) > 10
    THEN [reasons |-> Append(acc.reasons, "High special character count"),
          score |-> acc.score + 5]
    ELSE acc

\* len(re.findall(r'\d+', message)): the maximal runs of digits, counted at
\* their first digit
DigitRuns(m) ==
    Cardinality({i \in 1..Len(m) :
                    IsDigit(m[i]) /\ (i = 1 \/ ~IsDigit(m[i - 1]))})

\* 6. numeric values
NumericStep(acc, m) ==
    IF DigitRuns(m) > 5
    THEN [reasons |-> Append(acc.reasons, "Multiple numeric values"),
          score |-> acc.score + 5]
    ELSE acc

\* 7. error indicators
IndicatorStep(acc, message_lower) ==
    LET error_count ==
            Cardinality({k \in 1..Len(error_indicators) :
                            Contains(message_lower, error_indicators[k])})
    IN  IF error_count >= 2
        THEN [reasons |-> Append(acc.reasons, "Multiple error indicators"),
              score |-> acc.score + 10]
        ELSE acc

\* faulty variant: the score is returned as it is
Capped_Not(total) == total

\* min(score, 100)
Capped(total) == Min(total, 100)

\* explain_anomaly(log_entry, all_logs_df): the reasons (without the values
\* their texts are formatted with), the local score and the returned number
explain_anomaly(entry, logs) ==
    LET text == entry.MESSAGE
        message_lower == Lower(text)
        frequency == Cardinality({j \in 1..Len(logs) : logs[j].MESSAGE = text})
        lengths == [j \in 1..Len(logs) |-> Len(logs[j].MESSAGE)]
        s1 == SeverityStep([reasons |-> <<>>, score |-> 0], entry.LOG_LEVEL)
        s2 == KeywordStep(s1, message_lower, 1)
        s3 == RarityStep(s2, frequency, Len(logs))
        s4 == LengthStep(s3, Len(text), lengths)
        s5 == SpecialStep(s4, text)
        s6 == NumericStep(s5, text)
        s7 == IndicatorStep(s6, message_lower)
    IN  [reasons |-> s7.reasons, score |-> s7.score, confidence |-> Capped(s7.score)]

\* rows of the comparison set after the first that hold the filler message
MaxFill == 100
\* rows the first row needs beside it to lie more than two deviations out
OutlierFill == 5

E_ok ==
    <<"o", "k">>
E_conn ==
    <<"c", "o", "n", "n", "e", "c", "t", "i", "o", "n", " ", "t", "i", "m", "e", "o",
      "u", "t">>
E_fail ==
    <<"e", "r", "r", "o", "r", ":", " ", "c", "a", "n", "n", "o", "t", " ", "f", "a",
      "i", "l">>
E_invalid ==
    <<"I", "n", "v", "a", "l", "i", "d", ",", " ", "U", "N", "A", "B", "L", "E">>
E_many ==
    <<"f", "a", "i", "l", " ", "d", "e", "n", "i", "e", "d", " ", "a", "t", "t", "a",
      "c", "k", " ", "b", "r", "e", "a", "c", "h">>
E_all ==
    <<"f", "a", "i", "l", " ", "e", "x", "c", "e", "p", "t", "i", "o", "n", " ", "u",
      "n", "a", "u", "t", "h", "o", "r", "i", "z", "e", "d", " ", "t", "i", "m", "e",
      "o", "u", "t", " ", "c", "o", "n", "n", "e", "c", "t", "i", "o", "n", " ", "d",
      "e", "n", "i", "e", "d", " ", "a", "t", "t", "a", "c", "k", " ", "l", "o", "c",
      "k", "e", "d", " ", "b", "r", "e", "a", "c", "h", " ", "m", "a", "l", "i", "c",
      "i", "o", "u", "s">>
E_special ==
    <<"_", "!", "_", "!", "_", "!", "_", "!", "_", "!", "_">>
E_under ==
    <<"_", "_", "_", "_", "_", "_", "_", "_", "_", "_">>
E_numbers ==
    <<"1", " ", "2", " ", "3", " ", "4", " ", "5", " ", "6", "6">>
E_digits ==
    <<"1", "2", " ", "3", " ", "4", " ", "5", " ", "6">>
E_empty == <<>>
ExplainMessages ==
    {E_ok, E_conn, E_fail, E_invalid, E_many, E_all, E_special, E_under, E_numbers,
     E_digits, E_empty}
ExplainLevels == {"ERROR", "CRITICAL", "WARNING", "INFO"}

\* k rows holding the message m, numbered from `first`
Fill(m, k, first) ==
    [i \in 1..k |-> [LOG_ID |-> first + i - 1, LOG_LEVEL |-> "INFO", MESSAGE |-> m]]

FillCounts == {0, 1, OutlierFill - 1, OutlierFill, 19, 20, MaxFill - 1, MaxFill}

\* the result sets explain_anomaly is given: a row of the message m and level
\* l first, then either k filler rows (many only behind a short first row),
\* or a second row of the same message before them, or longer rows
ExplainFrames ==
    UNION {
        LET head == [LOG_ID |-> 1, LOG_LEVEL |-> l, MESSAGE |-> m]
        IN  {<<head>> \o Fill(E_ok, k, 2) :
                k \in {c \in FillCounts : c <= 20 \/ Len(m) <= 25}}
            \cup {<<head>> \o Fill(m, 1, 2) \o Fill(E_ok, 20, 3)}
            \cup {<<head>> \o Fill(E_conn, OutlierFill, 2)}
        : m \in ExplainMessages, l \in ExplainLevels}

\* analyze_top_anomalies calls explain_anomaly on a row of the result set
ExplainAnomaly ==
    /\ confidence = -1
    /\ LET result == explain_anomaly(log_entry, all_logs_df)
       IN  /\ reasons' = result.reasons
           /\ uncapped' = result.score
           /\ confidence' = result.confidence
    /\ UNCHANGED <<tables, analyzer, args, frames, pc, error, stages, ops, history,
                   persistence, raw_line, parsed_record, batch, structured,
                   log_entry, all_logs_df, sessions>>

ExplainInit ==
    /\ PipelineInit
    /\ PersistenceIdle
    /\ raw_line = None
    /\ parsed_record = <<>>
    /\ batch = <<>>
    /\ structured = <<>>
    /\ SessionsIdle
    /\ all_logs_df \in ExplainFrames
    /\ log_entry = all_logs_df[1]
    /\ reasons = <<>>
    /\ uncapped = 0
    /\ confidence = -1

ExplainNext == ExplainAnomaly

ExplainSpec == ExplainInit /\ [][ExplainNext]_vars

(* ------------------------------------------------------------------ *)
(* Two sessions in save_results_to_snowflake against the same schema   *)
(* ------------------------------------------------------------------ *)
Sessions == {1, 2}

\* raw_logs after both files were uploaded
BothFiles ==
    InsertRaw(InsertRaw(<<>>, FileApp, UploadLines[FileApp]), FileDb, UploadLines[FileDb])

\* the frames extract_features_and_vectorize can return for a run over a file
\* or over all rows (contamination 0.25)
SessionFrames ==
    UNION {
        LET feats == WithFeatures(ParsedDf(Query(f), BothFiles))
        IN  {WithScores(feats, A) : A \in FlaggedSets(feats, 25)}
        : f \in Files \cup {None}}

\* sp_df.write.mode("overwrite").save_as_table("TEMP_ANOMALY_RESULTS"): the
\* table is a permanent one of the schema, the same for every session
SessionSaveTemp(sid) ==
    /\ session_pc[sid] = "save_temp"
    /\ \E ok \in BOOLEAN :
        /\ temp_table' = IF ok
                         THEN [exists |-> TRUE,
                               rows |-> Overwrite(temp_table.rows,
                                                  SaveDf(session_results[sid]))]
                         ELSE temp_table
        /\ session_pc' = [session_pc EXCEPT
                            ![sid] = AfterStorage(ok, StepAfter("save_temp"))]
        /\ session_error' = [session_error EXCEPT
                               ![sid] = IF ok THEN @ ELSE "SnowparkSQLException"]
    /\ UNCHANGED <<raw_logs, parsed_logs, anomaly_results, anomaly_runs, analyzer,
                   args, frames, pc, error, stages, ops, history, persistence,
                   raw_line, parsed_record, batch, structured, report,
                   session_results, session_inserted>>

\* INSERT INTO anomaly_results ... SELECT ... FROM TEMP_ANOMALY_RESULTS: it
\* appends what the table holds now, and does not compile when there is no
\* such table
SessionInsertResults(sid) ==
    /\ session_pc[sid] = "insert_results"
    /\ \E ok \in BOOLEAN :
        LET good == ok /\ temp_table.exists
        IN  /\ anomaly_results' = IF good
                                  THEN InsertResultRows(anomaly_results, temp_table.rows)
                                  ELSE anomaly_results
            /\ session_inserted' = [session_inserted EXCEPT
                                      ![sid] = IF good THEN temp_table.rows ELSE @]
            /\ session_pc' = [session_pc EXCEPT
                                ![sid] = AfterStorage(good, StepAfter("insert_results"))]
            /\ session_error' = [session_error EXCEPT
                                   ![sid] = IF good THEN @
                                            ELSE IF ~temp_table.exists
                                            THEN "SQL compilation error"
                                            ELSE "SnowparkSQLException"]
    /\ UNCHANGED <<raw_logs, parsed_logs, anomaly_runs, temp_table, analyzer,
                   args, frames, pc, error, stages, ops, history, persistence,
                   raw_line, parsed_record, batch, structured, report,
                   session_results>>

\* DROP TABLE IF EXISTS TEMP_ANOMALY_RESULTS, after which
\* save_results_to_snowflake returns
SessionDropTemp(sid) ==
    /\ session_pc[sid] = "drop_temp"
    /\ \E ok \in BOOLEAN :
        /\ temp_table' = IF ok THEN NoTemp ELSE temp_table
        /\ session_pc' = [session_pc EXCEPT ![sid] = AfterStorage(ok, "saved")]
        /\ session_error' = [session_error EXCEPT
                               ![sid] = IF ok THEN @ ELSE "SnowparkSQLException"]
    /\ UNCHANGED <<raw_logs, parsed_logs, anomaly_results, anomaly_runs, analyzer,
                   args, frames, pc, error, stages, ops, history, persistence,
                   raw_line, parsed_record, batch, structured, report,
                   session_results, session_inserted>>

\* both runs have scored their batch and enter step 4
ConcurrentInit ==
    /\ StartOver(BothFiles)
    /\ PersistenceIdle
    /\ raw_line = None
    /\ parsed_record = <<>>
    /\ batch = <<>>
    /\ structured = <<>>
    /\ ReportIdle
    /\ session_pc = [sid \in Sessions |-> "save_temp"]
    /\ session_results \in [Sessions -> SessionFrames]
    /\ session_error = [sid \in Sessions |-> "none"]
    /\ session_inserted = [sid \in Sessions |-> <<>>]

ConcurrentNext ==
    \E sid \in Sessions :
        \/ SessionSaveTemp(sid)
        \/ SessionInsertResults(sid)
        \/ SessionDropTemp(sid)

ConcurrentSpec == ConcurrentInit /\ [][ConcurrentNext]_vars

(* ------------------------------------------------------------------ *)
(* Properties                                                          *)
(* ------------------------------------------------------------------ *)
Range(seq) == {seq[i] : i \in 1..Len(seq)}
IsPrefix(a, b) == Len(a) <= Len(b) /\ SubSeq(b, 1, Len(a)) = a
NoDuplicates(seq) == \A i, j \in 1..Len(seq) : seq[i] = seq[j] => i = j
Ids(rows) == [i \in 1..Len(rows) |-> rows[i].LOG_ID]

\* the raw rows to_pandas read in the current call
BatchRead == RawBatch(Query(file_name), SubSeq(raw_logs, 1, read_len))

\* to_pandas has been executed in the current call and did not fail
ReadOk == Len(ops) >= 2 /\ ~(Len(ops) = 2 /\ error = "SnowparkSQLException")

\* extract_features_and_vectorize has returned a scored frame
Scored == {"save_temp", "insert_results", "drop_temp", "record_run", "done"}

FullOrder == <<"LOADING_RAW", "PARSING", "EXTRACTING_FEATURES", "SCORING",
               "PERSISTING_RESULTS", "RECORDING_RUN">>

\* C1: in every row extract_features_and_vectorize returns, anomaly_score is
\* -1 or 1 and is_anomaly is true exactly when anomaly_score is -1.
C1_LabelConsistency ==
    \A i \in 1..Len(results_df) :
        /\ results_df[i].anomaly_score \in {-1, 1}
        /\ results_df[i].is_anomaly = (results_df[i].anomaly_score = -1)

C1_Witness ==
    \E i, j \in 1..Len(results_df) :
        results_df[i].is_anomaly /\ ~results_df[j].is_anomaly

\* C2: on a non-empty batch (a single row and all-identical rows included)
\* extract_features_and_vectorize raises nothing of its own and returns one
\* row per record read, with the same LOG_IDs in the same order; only an
\* empty batch returns an empty frame.
C2_EveryRowScored ==
    /\ error \notin {"ValueError", "KeyError"}
    /\ pc = "score" => Len(BatchRead) > 0 /\ Ids(df) = Ids(BatchRead)
    /\ pc \in Scored => Len(BatchRead) > 0 /\ Ids(results_df) = Ids(BatchRead)
    /\ pc = "returned_empty" => Len(BatchRead) = 0

C2_Witness ==
    /\ pc = "save_temp"
    /\ Len(results_df) >= 2
    /\ \A i \in 1..Len(results_df) :
          /\ results_df[i].MESSAGE = results_df[1].MESSAGE
          /\ results_df[i].LOG_LEVEL = results_df[1].LOG_LEVEL

\* C3: a call that reaches DONE went through load raw, parse, extract
\* features, score, persist results, record run in this order, none skipped;
\* anomaly_results grows only after scoring has finished, and anomaly_runs
\* grows only after the call's results have been appended.
C3_StageOrder ==
    [][ /\ pc' = "done" => stages' = FullOrder
        /\ anomaly_results' # anomaly_results =>
              /\ "SCORING" \in Range(stages)
              /\ pc # "score"
              /\ results_df # <<>>
        /\ anomaly_runs' # anomaly_runs =>
              /\ "PERSISTING_RESULTS" \in Range(stages)
              /\ Len(anomaly_results) = res_base + Len(results_df) ]_vars

C3_Witness == pc = "done" /\ stages = FullOrder /\ Len(anomaly_runs) = runs_base + 1

\* C4: when the batch read is empty the call returns an empty frame without
\* raising, and has appended nothing to anomaly_results nor to anomaly_runs.
C4_EmptyBatchShortCircuits ==
    /\ pc = "returned_empty" =>
          /\ results_df = <<>>
          /\ error = "none"
          /\ Len(anomaly_results) = res_base
          /\ Len(anomaly_runs) = runs_base
    /\ ReadOk /\ Len(BatchRead) = 0 => pc = "returned_empty"

C4_Witness ==
    /\ pc = "returned_empty"
    /\ file_name = FileDb
    /\ Len(raw_logs) > 0
    /\ Len(anomaly_results) > 0

\* C5 as claimed: every invocation appends exactly one row to anomaly_runs, so
\* between calls the run history holds as many rows as there were calls.
C5_OneRunRowPerInvocation == pc = "idle" => Len(anomaly_runs) = runs

\* C5 amended: anomaly_runs is only ever extended, by exactly one row in the
\* step in which a call reaches DONE and by none in any other step (a call
\* that short-circuits on an empty batch or ends in a failure adds no row).
C5_OneRunRowPerCompletedRun ==
    [][ /\ IsPrefix(anomaly_runs, anomaly_runs')
        /\ Len(anomaly_runs') =
              Len(anomaly_runs) + (IF pc' = "done" /\ pc # "done" THEN 1 ELSE 0) ]_vars

C5_Witness == pc = "done" /\ Len(anomaly_runs) = 2

\* C6: the run record of a call that reaches DONE has total_logs equal to the
\* number of rows the call appended to anomaly_results, anomalies_detected
\* equal to the number of those rows with IS_ANOMALY, contamination_factor
\* equal to the contamination argument, and file_name equal to the filter, or
\* "ALL" when there was none.
C6_RunRecordMatchesResults ==
    pc = "done" =>
        LET r == anomaly_runs[Len(anomaly_runs)]
            appended == SubSeq(anomaly_results, res_base + 1, Len(anomaly_results))
            flagged == {i \in 1..Len(appended) : appended[i].IS_ANOMALY}
        IN  /\ Len(anomaly_runs) = runs_base + 1
            /\ r.total_logs = Len(appended)
            /\ r.anomalies_detected = Cardinality(flagged)
            /\ 0 <= r.anomalies_detected /\ r.anomalies_detected <= r.total_logs
            /\ r.contamination_factor = contamination
            /\ r.file_name = IF Truthy(file_name) THEN file_name
                             ELSE <<"A", "L", "L">>

C6_Witness ==
    /\ pc = "done"
    /\ ~Truthy(file_name)
    /\ anomaly_runs[Len(anomaly_runs)].anomalies_detected = 1
    /\ anomaly_runs[Len(anomaly_runs)].total_logs = 4

\* the number of rows of anomaly_results for raw row i is the number of calls
\* that selected row i and whose INSERT of results ran
ResultsCounted ==
    \A i \in 1..Len(raw_logs) :
        Cardinality({k \in 1..Len(anomaly_results) :
                        anomaly_results[k].LOG_ID = raw_logs[i].LOG_ID})
        = Cardinality({j \in 1..Len(persisted) :
                        ~Truthy(persisted[j]) \/ raw_logs[i].FILE_NAME = persisted[j]})

\* C7: results are appended without deduplication: while raw_logs is the
\* same for every call, each record selected by k calls that inserted their
\* results is k times in anomaly_results; and no step changes or removes a
\* row anomaly_results already holds.
C7_AppendWithoutDedup ==
    [][ /\ IsPrefix(anomaly_results, anomaly_results')
        /\ ~raw_changed' => ResultsCounted' ]_vars

C7_Witness ==
    /\ ~raw_changed
    /\ Len(raw_logs) >= 3
    /\ Len(persisted) = 2
    /\ ~Truthy(persisted[1]) /\ ~Truthy(persisted[2])
    /\ Len(anomaly_results) = 2 * Len(raw_logs)

\* C8: parsed_logs holds exactly the parsed rows of the batch of the most
\* recent call that wrote it (one per raw row its query selected, also when
\* there was none), and that call is the current one once it is past step 2.
C8_ParsedLogsReplaced ==
    /\ parsed_logs = ParsedDf(Query(parsed_arg), SubSeq(raw_logs, 1, parsed_len))
    /\ pc \in ({"extract", "score", "returned_empty"} \cup Scored) =>
          parsed_arg = file_name

C8_Witness ==
    /\ ~raw_changed
    /\ runs = 2
    /\ pc = "returned_empty"
    /\ Len(anomaly_runs) = 1
    /\ parsed_logs = <<>>

\* C9: when fit_transform raises, the call goes on with the 12 structural
\* columns only, the forest is fitted and every row gets anomaly_score,
\* anomaly_probability and is_anomaly.
C9_VectorizerDegrades ==
    tfidf = "raised" =>
        /\ error # "ValueError"
        /\ pc # "returned_empty"
        /\ feature_width = NStructural
        /\ Len(df) = Len(BatchRead)
        /\ pc \in Scored =>
              /\ model = "fitted"
              /\ Len(results_df) = Len(BatchRead)
              /\ \A i \in 1..Len(results_df) :
                    /\ results_df[i].anomaly_score \in {-1, 1}
                    /\ results_df[i].anomaly_probability \in {1, 2}
                    /\ results_df[i].is_anomaly \in BOOLEAN

C9_Witness == tfidf = "raised" /\ pc = "done" /\ Len(results_df) = 1

\* C10: a storage statement that fails ends the call with the exception
\* (pc is "failed" whenever an error is recorded), no statement is issued
\* twice in a call, and after the failure the call issues no statement and
\* writes no table.
C10_StorageFailureSurfaces ==
    [][ /\ NoDuplicates(ops')
        /\ error' # "none" => pc' = "failed"
        /\ pc = "failed" =>
              /\ parsed_logs' = parsed_logs
              /\ anomaly_results' = anomaly_results
              /\ anomaly_runs' = anomaly_runs
              /\ temp_table' = temp_table
              /\ Len(ops') <= Len(ops) ]_vars

C10_Witness ==
    /\ pc = "failed"
    /\ error = "SnowparkSQLException"
    /\ Len(ops) = 4
    /\ ops[4] = "insert anomaly_results"
    /\ temp_table.exists

\* the current call failed inside save_results_to_snowflake
PersistFailed ==
    /\ pc = "failed"
    /\ "PERSISTING_RESULTS" \in Range(stages)
    /\ "RECORDING_RUN" \notin Range(stages)

\* C11: when the results-persistence stage fails at any of its statements (the
\* write of TEMP_ANOMALY_RESULTS, the INSERT into anomaly_results, the DROP),
\* storage afterwards holds neither TEMP_ANOMALY_RESULTS nor a result row of
\* that call.
C11_NoPartialOutput ==
    PersistFailed =>
        /\ ~temp_table.exists
        /\ Len(anomaly_results) = res_base

\* a failed DROP leaves both the table and the call's rows
C11_Witness ==
    /\ PersistFailed
    /\ ops[Len(ops)] = "drop TEMP_ANOMALY_RESULTS"
    /\ temp_table.exists
    /\ Len(anomaly_results) = res_base + Len(results_df)
    /\ Len(results_df) > 0

\* C12: after load_model has restored the vectorizer, the scaler and the model,
\* scoring a batch fits or replaces none of them: the analyzer still holds the
\* three objects that were loaded.
C12_ReuseIsTransformOnly == loaded = Fields => refit = {}

C12_Witness ==
    /\ loaded = Fields
    /\ refit = Fields
    /\ \A f \in Fields : disk[f] = "earlier" /\ FieldValue(f) = "fitted"

\* C13: a failure inside an operation of the analyzer, other than the
\* vectorization degradation, reaches the caller: the operation ends with
\* the exception that was raised.
C13_FailuresSurface ==
    raised \notin {"none", "VectorizationDegraded"} => error = raised

\* load_model returned normally over a directory without files
C13_Witness ==
    /\ raised = "FileNotFoundError"
    /\ error = "none"
    /\ loaded = {}
    /\ disk = NoFiles

Levels == {"INFO", "WARNING", "ERROR", "CRITICAL", "DEBUG", "SUMMARY"}

\* s begins with YYYY-MM-DD HH:MM:SS
StartsWithTimestamp(s) ==
    /\ Len(s) >= 19
    /\ \A i \in {1, 2, 3, 4, 6, 7, 9, 10, 12, 13, 15, 16, 18, 19} : s[i] \in Digits
    /\ s[5] = "-" /\ s[8] = "-" /\ s[11] = " " /\ s[14] = ":" /\ s[17] = ":"

\* s without its first n characters and the whitespace after them
AfterPrefix(s, n) == Suffix(s, SkipSpaces(s, n + 1))

\* the positions of s where a whitespace-delimited token begins
TokenStarts(s) ==
    {i \in 1..Len(s) : ~IsSpace(s[i]) /\ (i = 1 \/ IsSpace(s[i - 1]))}

\* a text: a sequence of characters, not the null value
IsText(m) == m # None /\ \A i \in 1..Len(m) : m[i] # "None"

\* the line is a text with at least one character
RealLine == raw_line # None /\ raw_line # <<>>

\* the line holds nothing but whitespace
BlankLine == raw_line # None /\ \A i \in 1..Len(raw_line) : IsSpace(raw_line[i])

\* C14: parse_log_line is total: for every line, the empty and the null line
\* included, it returns a log_level of the six levels and a message that is a
\* text, never null.
C14_ParserTotal ==
    \A k \in 1..Len(parsed_record) :
        /\ parsed_record[k].log_level \in Levels
        /\ IsText(parsed_record[k].message)

C14_Witness ==
    /\ raw_line = None
    /\ parsed_record # <<>>
    /\ parsed_record[1].message = <<>>

\* C15: the level is decided by case-sensitive substring tests on the line
\* without its timestamp, in the order ERROR, WARNING/WARN, CRITICAL/FATAL,
\* DEBUG, SUMMARY, and is INFO when none occurs.
C15_LevelPriority ==
    \A k \in 1..Len(parsed_record) :
        LET w == IF StartsWithTimestamp(raw_line) THEN AfterPrefix(raw_line, 19)
                 ELSE raw_line
            e == Contains(w, S_ERROR)
            wa == Contains(w, S_WARNING) \/ Contains(w, S_WARN)
            c == Contains(w, S_CRITICAL) \/ Contains(w, S_FATAL)
            d == Contains(w, S_DEBUG)
            su == Contains(w, S_SUMMARY)
            level == parsed_record[k].log_level
        IN  /\ e => level = "ERROR"
            /\ ~e /\ wa => level = "WARNING"
            /\ ~e /\ ~wa /\ c => level = "CRITICAL"
            /\ ~e /\ ~wa /\ ~c /\ d => level = "DEBUG"
            /\ ~e /\ ~wa /\ ~c /\ ~d /\ su => level = "SUMMARY"
            /\ ~e /\ ~wa /\ ~c /\ ~d /\ ~su => level = "INFO"

\* a CRITICAL line that mentions WARN parses to WARNING
C15_Witness ==
    /\ parsed_record # <<>>
    /\ raw_line = Stamp \o <<" ">> \o S_CRITICAL \o <<" ">> \o W_db \o <<" ">> \o S_WARN
    /\ parsed_record[1].log_level = "WARNING"

C17_LeadingWhitespaceTimestamp ==
    \A k \in 1..Len(parsed_record) :
        LET n == SkipSpaces(raw_line, 1) - 1
        IN  RealLine /\ n >= 1 /\ StartsWithTimestamp(Suffix(raw_line, n + 1)) =>
                /\ parsed_record[k].timestamp_str = SubSeq(raw_line, n + 1, n + 19)
                /\ parsed_record[k].message = Message(AfterPrefix(raw_line, n + 19))

\* the timestamp after one space is not found: its two parts are taken for
\* the first two tokens
C17_Witness ==
    /\ parsed_record # <<>>
    /\ raw_line = <<" ">> \o Stamp \o <<" ">> \o S_ERROR \o <<" ">> \o W_db
    /\ parsed_record[1].timestamp_str = None
    /\ parsed_record[1].message = S_ERROR \o <<" ">> \o W_db

\* C18: the empty line and every line of whitespace only parse to level INFO,
\* the empty message and no timestamp.
C18_BlankLine ==
    \A k \in 1..Len(parsed_record) :
        BlankLine =>
            parsed_record[k] = [log_level |-> "INFO", message |-> <<>>,
                         timestamp_str |-> None]

\* a line of two spaces keeps them as its message
C18_Witness ==
    /\ parsed_record # <<>>
    /\ raw_line = <<" ", " ">>
    /\ parsed_record[1].message = <<" ", " ">>

\* C19: when the working line has at least three whitespace-delimited tokens
\* the message is the line from its third token on; with fewer tokens the
\* message is the working line unchanged.
C19_MessageExtraction ==
    \A k \in 1..Len(parsed_record) :
        RealLine =>
            LET w == IF StartsWithTimestamp(raw_line)
                     THEN AfterPrefix(raw_line, 19) ELSE raw_line
                starts == TokenStarts(w)
                third == CHOOSE i \in starts : Cardinality({j \in starts : j < i}) = 2
            IN  IF Cardinality(starts) >= 3
                THEN parsed_record[k].message = Suffix(w, third)
                ELSE parsed_record[k].message = w

\* two tokens: the level token stays in the message
C19_Witness ==
    /\ parsed_record # <<>>
    /\ raw_line = Stamp \o <<" ">> \o S_ERROR \o <<" ">> \o W_db
    /\ parsed_record[1].message = S_ERROR \o <<" ">> \o W_db

\* C20: for every record of a batch, message_frequency is the number of
\* records of the batch with the same message string, itself included, and
\* is_rare_message is 1 exactly when message_frequency <= 2.
C20_MessageFrequency ==
    \A i \in 1..Len(structured) :
        IsText(batch[i].MESSAGE) =>
            LET same == {j \in 1..Len(batch) : batch[j].MESSAGE = batch[i].MESSAGE}
                f == structured[i].features
            IN  /\ f[11] = Cardinality(same)
                /\ f[11] >= 1
                /\ f[12] = (IF f[11] <= 2 THEN 1 ELSE 0)

\* the batch of ten: the message that occurs twice is rare, the others not
C20_Witness ==
    /\ structured # <<>>
    /\ batch = Frame(TenMessages)
    /\ structured[1].features[11] = 2 /\ structured[4].features[11] = 2
    /\ structured[1].features[12] = 1 /\ structured[4].features[12] = 1
    /\ structured[2].features[11] = 3 /\ structured[2].features[12] = 0

\* a letter or a digit
IsAlphanumeric(c) == IsLetter(c) \/ IsDigit(c)

\* C21: for every message, has_special_chars is the number of its characters
\* that are neither alphanumeric nor whitespace; an underscore counts as one.
C21_SpecialCharCount ==
    \A i \in 1..Len(structured) :
        IsText(batch[i].MESSAGE) =>
            LET m == batch[i].MESSAGE
            IN  structured[i].features[10] =
                    Cardinality({k \in 1..Len(m) :
                                    ~IsAlphanumeric(m[k]) /\ ~IsSpace(m[k])})

\* "a_b!" has two such characters and has_special_chars is 1
C21_Witness ==
    /\ structured # <<>>
    /\ batch[1].MESSAGE = M_under
    /\ structured[1].features[10] = 1

\* the feature matrix of the current call has been composed
MatrixComposed == pc \in ({"score"} \cup Scored)

\* C22: the feature matrix has one row per record; its first 12 columns are
\* msg_len, has_error, has_warning, has_critical, has_failure, has_exception,
\* is_unauthorized, is_connection_issue, has_number, has_special_chars,
\* message_frequency, is_rare_message in this order, the text-vector columns
\* follow; the width is 12 when there are no text-vector columns and never
\* more than 12 + max_features.
C22_FeatureMatrixShape ==
    MatrixComposed =>
        /\ Len(df) = Len(BatchRead)
        /\ feature_width >= 12
        /\ feature_width <= 12 + max_features
        /\ tfidf = "raised" => feature_width = 12
        /\ \A i \in 1..Len(df) :
              LET m == FillNa(df[i].MESSAGE)
                  f == df[i].features
                  same == {j \in 1..Len(df) : df[j].MESSAGE = df[i].MESSAGE}
              IN  /\ Len(f) = 12
                  /\ f[1] = Len(m)
                  /\ f[2] = Bit(df[i].LOG_LEVEL = "ERROR")
                  /\ f[3] = Bit(df[i].LOG_LEVEL = "WARNING")
                  /\ f[4] = Bit(df[i].LOG_LEVEL = "CRITICAL")
                  /\ f[5] = Bit(ContainsNoCase(m, S_fail))
                  /\ f[6] = Bit(ContainsNoCase(m, S_exception))
                  /\ f[7] = Bit(ContainsNoCase(m, S_unauthorized))
                  /\ f[8] = Bit(\E w \in {S_connection, S_network, S_latency, S_timeout} :
                                    ContainsNoCase(m, w))
                  /\ f[9] = Bit(\E k \in 1..Len(m) : m[k] \in Digits)
                  /\ f[10] = SpecialChars(m)
                  /\ f[11] = Cardinality(same)
                  /\ f[12] = Bit(f[11] <= 2)

\* three terms survive pruning and max_features = 2 keeps two of them
C22_Witness ==
    /\ pc = "save_temp"
    /\ tfidf = "ok"
    /\ max_features = 2
    /\ feature_width = 14
    /\ Len(df) = 4

\* the rows of raw the filter of the current call asks for
Wanted(raw) ==
    IF Truthy(file_name) THEN SelectSeq(raw, LAMBDA r : r.FILE_NAME = file_name)
    ELSE raw

\* C23: the batch run_full_pipeline processes is exactly the rows of raw_logs
\* whose file_name equals the filter, and all rows when there is no filter:
\* the query built for the filter is a valid statement and selects these rows.
C23_FilteredBatch ==
    /\ error # "SQL compilation error"
    /\ MatrixComposed => Ids(df) = Ids(Wanted(SubSeq(raw_logs, 1, read_len)))
    /\ pc = "returned_empty" => Wanted(SubSeq(raw_logs, 1, read_len)) = <<>>

\* raw_logs holds a row of the file o'b and the call that asks for it fails
C23_Witness ==
    /\ pc = "failed"
    /\ error = "SQL compilation error"
    /\ file_name = FileQuoted
    /\ \E i \in 1..Len(raw_logs) : raw_logs[i].FILE_NAME = FileQuoted
    /\ parsed_logs = <<>>

\* the ten keywords and the seven generic error indicators of the schedule
TenKeywords ==
    {S_fail, S_exception, S_unauthorized, S_timeout, S_connection, S_denied,
     S_attack, S_locked, S_breach, S_malicious}
GenericIndicators ==
    {S_error, S_fail, S_exception, S_denied, S_invalid, S_unable, S_cannot}

\* the point schedule applied to the entry and comparison set of the state.
\* The deviation test is stated on the lengths scaled by the number of rows n:
\* with T their sum, |len - T/n| > 2 * std, std the sample standard deviation,
\* is (n*len - T)^2 * (n - 1) > 4 * sum_j (n*len_j - T)^2.
ScheduleSum ==
    LET m == log_entry.MESSAGE
        low == Lower(m)
        n == Len(all_logs_df)
        share == Cardinality({j \in 1..n : all_logs_df[j].MESSAGE = m})
        lens == [j \in 1..n |-> Len(all_logs_df[j].MESSAGE)]
        T == SumSeq(lens)
        spread == SumSeq([j \in 1..n |-> (n * lens[j] - T) * (n * lens[j] - T)])
        off == n * Len(m) - T
        specials == Cardinality({i \in 1..Len(m) :
                                   ~IsAlphanumeric(m[i]) /\ ~IsSpace(m[i])})
        runs_of_digits ==
            Cardinality({i \in 1..Len(m) :
                            IsDigit(m[i]) /\ (i = Len(m) \/ ~IsDigit(m[i + 1]))})
    IN  (IF log_entry.LOG_LEVEL \in {"ERROR", "CRITICAL"} THEN 25 ELSE 0)
        + 15 * Cardinality({w \in TenKeywords : Contains(low, w)})
        + (IF 100 * share < n THEN 30 ELSE IF 100 * share < 5 * n THEN 15 ELSE 0)
        + (IF n >= 2 /\ off * off * (n - 1) > 4 * spread THEN 10 ELSE 0)
        + (IF specials > 10 THEN 5 ELSE 0)
        + (IF runs_of_digits > 5 THEN 5 ELSE 0)
        + (IF Cardinality({w \in GenericIndicators : Contains(low, w)}) >= 2
           THEN 10 ELSE 0)

\* C25: the confidence explain_anomaly returns is min(100, S), S being the sum
\* of the schedule: 25 for level ERROR or CRITICAL, 15 for each of the ten
\* keywords in the lower-cased message, 30 when the message's share of the rows
\* is below 1% and otherwise 15 when below 5%, 10 when the length lies more
\* than two standard deviations above or below the mean, 5 for more than 10
\* special characters, 5 for more than 5 digit runs, 10 for at least two
\* generic error indicators; it is an integer in 0..100.
C25_ConfidenceSchedule ==
    confidence # -1 =>
        /\ Cardinality(TenKeywords) = 10
        /\ confidence = (IF ScheduleSum < 100 THEN ScheduleSum ELSE 100)
        /\ confidence \in 0..100

\* a rare ERROR row with four keywords among MaxFill other rows: the sum is
\* over 100 and the cap applies
C25_Witness ==
    /\ confidence = 100
    /\ uncapped > 100
    /\ log_entry.MESSAGE = E_many
    /\ log_entry.LOG_LEVEL = "ERROR"
    /\ Len(all_logs_df) > 100

\* the points the schedule gives for a reason
Points(reason) ==
    CASE reason = "High severity level" -> 25
      [] reason \in {keywords[k].description : k \in 1..Len(keywords)} -> 15
      [] reason = "Extremely rare message" -> 30
      [] reason = "Uncommon message" -> 15
      [] reason \in {"Unusually long message", "Unusually short message"} -> 10
      [] reason = "High special character count" -> 5
      [] reason = "Multiple numeric values" -> 5
      [] reason = "Multiple error indicators" -> 10

\* C30: every award of points in explain_anomaly appends one reason and nothing
\* else appends one: the returned list of reasons is empty exactly when the
\* returned confidence is 0, no reason is listed twice, and the score before the
\* cap is the sum of the points of the listed reasons.
C30_ReasonsMatchPoints ==
    confidence # -1 =>
        /\ (reasons = <<>>) <=> (confidence = 0)
        /\ NoDuplicates(reasons)
        /\ uncapped = SumSeq([i \in 1..Len(reasons) |-> Points(reasons[i])])

\* an entry explained with several reasons below the cap
C30_Witness ==
    /\ confidence \in 1..99
    /\ confidence = uncapped
    /\ Len(reasons) >= 4

\* an entry explained with no reason at all
C30_WitnessEmpty ==
    /\ confidence = 0
    /\ reasons = <<>>
    /\ Len(all_logs_df) > 1

\* the INSERT of a session has run
SessionInsertRan(sid) == session_pc[sid] \in {"drop_temp", "saved"}

\* C27: when two invocations interleave against the same storage, each appends
\* to anomaly_results exactly the rows it scored, once each: through the shared
\* table TEMP_ANOMALY_RESULTS no run inserts the other run's rows or loses its
\* own, and none fails because the other dropped the table.
C27_SessionsIsolated ==
    session_pc # <<>> =>
        \A sid \in Sessions :
            /\ SessionInsertRan(sid) =>
                   session_inserted[sid] = SaveDf(session_results[sid])
            /\ session_error[sid] # "SQL compilation error"

\* session 1 appended the rows session 2 scored, and none of its own
C27_Witness ==
    /\ session_pc # <<>>
    /\ SessionInsertRan(1)
    /\ session_inserted[1] = SaveDf(session_results[2])
    /\ Ids(session_results[1]) # Ids(session_results[2])

\* a session's INSERT found the table dropped by the other
C27_WitnessDropped ==
    /\ session_pc # <<>>
    /\ \E sid \in Sessions : session_error[sid] = "SQL compilation error"

\* the rows the current call appended to anomaly_results
Appended == SubSeq(anomaly_results, res_base + 1, Len(anomaly_results))

\* C28: within one run, the record ids scored and appended to anomaly_results
\* are the record ids the same run wrote to parsed_logs, also when an upload
\* appends rows to raw_logs between the write of parsed_logs and the read that
\* feeds feature extraction.
C28_ScoredIdsAreParsedIds ==
    /\ pc \in Scored => Range(Ids(results_df)) = Range(Ids(parsed_logs))
    /\ pc \in {"drop_temp", "record_run", "done"} =>
          Range(Ids(Appended)) = Range(Ids(parsed_logs))

\* a run over all files that scored and appended a row uploaded after it
\* wrote parsed_logs
C28_Witness ==
    /\ pc = "done"
    /\ parsed_arg = file_name
    /\ parsed_len < read_len
    /\ Len(parsed_logs) < Len(Appended)
    /\ Range(Ids(Appended)) = Range(Ids(results_df))

\* C29: load_model is all-or-nothing: when the load of one of the three files
\* fails, vectorizer, model and scaler are all left as they were before the
\* call.
C29_LoadAllOrNothing ==
    [][(LoadModel /\ raised' \in {"FileNotFoundError", "UnpicklingError"})
           => UNCHANGED analyzer]_vars

\* a new analyzer after load_model over a directory holding the vectorizer
\* file only: the vectorizer is the loaded one, model and scaler are not
C29_Witness ==
    /\ raised = "FileNotFoundError"
    /\ loaded = {"vectorizer"}
    /\ vectorizer = "earlier"
    /\ model = "None"
    /\ scaler = "unfitted"

====
